---- MODULE Spec2Model ----
(***************************************************************************)
(* State-machine model of the Hooper NBA prediction pipeline:              *)
(*   model.py        NBAPredictor (one-hot features, fit, predict)         *)
(*   database.py     SQLite store, fictional seed and API importers        *)
(*   data_loader.py  load_data / preprocess_data                           *)
(*   main.py         interactive driver                                    *)
(* Four specifications share the module: SpecPredictor, SpecFetch,         *)
(* SpecStore and SpecDriver.  Each one moves its own variables and leaves  *)
(* the others at their initial values.                                     *)
(***************************************************************************)
EXTENDS Integers, Sequences, FiniteSets

VARIABLES
    \* NBAPredictor instance (model.py)
    model,            \* self.model: the LinearRegression estimator
    feature_columns,  \* self.feature_columns: None (<<>>) until fit assigns it
    call,             \* the last method call made on the predictor
    outcome,          \* what that call did: returned a value or raised
    \* fetch_games_from_api / populate_tables_from_api run (database.py)
    fpc,              \* position in the paging loop
    num_games,        \* the requested count
    games,            \* the accumulated list `games`
    page,             \* the local `page`
    requests,         \* log of the page requests issued so far, in order
    fetched,          \* the list returned by fetch_games_from_api
    stored,           \* Games rows inserted from it by populate_tables_from_api
    \* the SQLite store (database.py) and what main() loads from it
    Teams, Players, Games,
    sqlite_sequence,  \* AUTOINCREMENT counters of the three tables
    runs,             \* number of importer runs so far
    last,             \* the last importer run: its mode, inputs and pre-state
    valid_team_ids,   \* main(): set of ids in games_df
    valid_teams_df,   \* main(): the roster rows
    \* the interactive loop of main() (main.py)
    pc,               \* position in the while loop
    teams_df, games_df,
    home_id, away_id, \* the two raw input lines
    printed           \* what the last completed iteration printed

predVars   == <<model, feature_columns, call, outcome>>
fetchVars  == <<fpc, num_games, games, page, requests, fetched, stored>>
storeVars  == <<Teams, Players, Games, sqlite_sequence, runs, last,
                valid_team_ids, valid_teams_df>>
driverVars == <<pc, teams_df, games_df, home_id, away_id, printed>>
vars       == <<predVars, fetchVars, storeVars, driverVars>>

\* What the actions of one program leave alone.
PredFrame   == UNCHANGED <<fetchVars, storeVars, driverVars>>
FetchFrame  == UNCHANGED <<predVars, storeVars, driverVars>>
StoreFrame  == UNCHANGED <<predVars, fetchVars, driverVars>>
DriverFrame == UNCHANGED <<fetchVars, Teams, Players, Games, sqlite_sequence, runs, last>>

----------------------------------------------------------------------------
(* Generic helpers                                                         *)

None    == <<>>
Some(x) == <<x>>

Min(a, b) == IF a < b THEN a ELSE b
Max(a, b) == IF a > b THEN a ELSE b

Range(s) == {s[i] : i \in 1..Len(s)}

\* All sequences over S of length at most n.
SeqsUpTo(S, n) == UNION {[1..k -> S] : k \in 0..n}

----------------------------------------------------------------------------
(* Bounds of the model                                                     *)

MaxGames == 2      \* rows of a games table handed to fit / to the driver

\* Team identifiers.  12 sorts between 1 and 2 as a string.
TeamIds == {1, 2, 12}
\* Values a fitted regression may return, and totals a caller may pass.
Diffs  == {-7, 0, 3}
Totals == {[num |-> 0, den |-> 1], [num |-> 5, den |-> 1], [num |-> 397, den |-> 2]}

----------------------------------------------------------------------------
(* model.py: NBAPredictor                                                  *)

\* str(n) of a non-negative int, as its sequence of decimal digits.
RECURSIVE IntToStr(_)
IntToStr(n) == IF n < 10 THEN <<n>> ELSE IntToStr(n \div 10) \o <<n % 10>>

\* Python's < on two digit strings (lexicographic, shorter prefix first).
RECURSIVE StrLess(_, _)
StrLess(s, t) ==
    IF t = <<>> THEN FALSE
    ELSE IF s = <<>> THEN TRUE
    ELSE IF s[1] # t[1] THEN s[1] < t[1]
    ELSE StrLess(Tail(s), Tail(t))

\* sorted(S) for a set of digit strings.
RECURSIVE SortedStrs(_)
SortedStrs(S) ==
    IF S = {} THEN <<>>
    ELSE LET m == CHOOSE x \in S : \A y \in S \ {x} : StrLess(x, y)
         IN  <<m>> \o SortedStrs(S \ {m})

\* The column name f'{prefix}_{cat}'.
Col(prefix, cat) == [prefix |-> prefix, cat |-> cat]

\* pd.get_dummies(df.astype(str), columns=[home_team_id, away_team_id]):
\* one column per observed category, categories sorted, the home block first.
GetDummies(df) ==
    LET H == SortedStrs({IntToStr(df[i].home_team_id) : i \in 1..Len(df)})
        A == SortedStrs({IntToStr(df[i].away_team_id) : i \in 1..Len(df)})
    IN  [i \in 1..Len(H) |-> Col("home_team_id", H[i])]
        \o [i \in 1..Len(A) |-> Col("away_team_id", A[i])]

\* prepare_features: X is given by its columns, y is the differential per row.
prepare_features(df) ==
    [X |-> GetDummies(df),
     y |-> [i \in 1..Len(df) |-> df[i].home_score - df[i].away_score]]

\* __init__: a fresh LinearRegression, and no feature_columns attribute.
UnfitModel == [fitted |-> FALSE, feature_names_in |-> <<>>]

\* LinearRegression.fit(X, y) raises ValueError on zero samples.
SkFitRaises(X, y) == Len(y) = 0

\* data[key] = 1 on an insertion-ordered dict given as a sequence of
\* <<key, value>> pairs: an existing key keeps its place, a new key is
\* appended.
DictSet(d, k, v) ==
    IF \E i \in 1..Len(d) : d[i][1] = k
    THEN [i \in 1..Len(d) |-> IF d[i][1] = k THEN <<k, v>> ELSE d[i]]
    ELSE Append(d, <<k, v>>)

\* The single-row frame predict() builds (lines 43-46).
BuildRow(cols, home_team_id, away_team_id) ==
    LET d0 == [i \in 1..Len(cols) |-> <<cols[i], 0>>]
        d1 == DictSet(d0, Col("home_team_id", IntToStr(home_team_id)), 1)
    IN  DictSet(d1, Col("away_team_id", IntToStr(away_team_id)), 1)

RowColumns(row) == [i \in 1..Len(row) |-> row[i][1]]

\* LinearRegression.predict(X_pred) accepts the frame only when its columns
\* are the ones seen at fit, in the same order; otherwise it raises ValueError.
SkPredictAccepts(m, row) == m.fitted /\ RowColumns(row) = m.feature_names_in

Raised(exc)   == [kind |-> "raise", exc |-> exc, value |-> None, X_pred |-> None]
Returned(v, row) == [kind |-> "return", exc |-> "", value |-> Some(v), X_pred |-> Some(row)]

\* Outcomes of predict(home, away) on a predictor in state (m, fc).
\* The regression's value is any of Diffs.
PredictOutcomes(m, fc, home_team_id, away_team_id) ==
    IF fc = None
    THEN {Raised("AttributeError")}
    ELSE LET row == BuildRow(fc[1], home_team_id, away_team_id)
         IN  IF SkPredictAccepts(m, row)
             THEN {Returned(d, row) : d \in Diffs}
             ELSE {Raised("ValueError")}

\* Numbers are exact fractions num/den (den > 0); diff is an integer.
\* (t + diff) / 2 and (t - diff) / 2 for a fraction t.
HalfSum(t, diff)  == [num |-> t.num + diff * t.den, den |-> 2 * t.den]
HalfDiff(t, diff) == [num |-> t.num - diff * t.den, den |-> 2 * t.den]

\* predict_scores, lines 56-58: the pair (home_score, away_score).
ScoresFromDiff(avg_total, diff) ==
    <<HalfSum(avg_total, diff), HalfDiff(avg_total, diff)>>

PredictScoresOutcomes(m, fc, home_team_id, away_team_id, avg_total) ==
    {IF o.kind = "raise" THEN o
     ELSE [o EXCEPT !.value = Some(ScoresFromDiff(avg_total, o.value[1]))] :
        o \in PredictOutcomes(m, fc, home_team_id, away_team_id)}

\* Game rows and tables handed to fit.
GameRow(h, a, hs, as) ==
    [home_team_id |-> h, away_team_id |-> a, home_score |-> hs, away_score |-> as]
GameRows ==
    { GameRow(1, 2, 102, 98),  GameRow(2, 1, 95, 100),  GameRow(1, 12, 99, 101),
      GameRow(12, 1, 110, 105), GameRow(2, 12, 104, 107), GameRow(12, 2, 0, 0) }
GameTables == SeqsUpTo(GameRows, MaxGames)

NoTotal == [num |-> 0, den |-> 1]
NoCall  == [op |-> "none", home |-> 0, away |-> 0, total |-> NoTotal]

PredInit ==
    /\ model = UnfitModel
    /\ feature_columns = None
    /\ call = NoCall
    /\ outcome = Raised("")

\* fit(games_df), lines 29-35.
Fit(df) ==
    LET p == prepare_features(df)
    IN  /\ call' = [NoCall EXCEPT !.op = "fit"]
        /\ IF SkFitRaises(p.X, p.y)
           THEN /\ outcome' = Raised("ValueError")
                /\ UNCHANGED <<model, feature_columns>>
           ELSE /\ model' = [fitted |-> TRUE, feature_names_in |-> p.X]
                /\ feature_columns' = Some(p.X)
                /\ outcome' = [kind |-> "return", exc |-> "", value |-> None, X_pred |-> None]

\* predict(home_team_id, away_team_id), lines 37-47.
Predict(h, a) ==
    /\ call' = [op |-> "predict", home |-> h, away |-> a, total |-> NoTotal]
    /\ outcome' \in PredictOutcomes(model, feature_columns, h, a)
    /\ UNCHANGED <<model, feature_columns>>

\* predict_scores(home_team_id, away_team_id, avg_total), lines 49-58.
PredictScores(h, a, T) ==
    /\ call' = [op |-> "predict_scores", home |-> h, away |-> a, total |-> T]
    /\ outcome' \in PredictScoresOutcomes(model, feature_columns, h, a, T)
    /\ UNCHANGED <<model, feature_columns>>

----------------------------------------------------------------------------
(* database.py: the remote provider's responses                            *)

MaxPageLen  == 2   \* records in one page of the games endpoint
MaxNumGames == 3   \* largest requested count

\* An ISO-8601 date string, split at its tenth character.
Date(ymd) == [ymd |-> ymd, rest |-> "T00:00:00.000Z"]
\* g['date'][:10]
DatePrefix(d) == [ymd |-> d.ymd, rest |-> ""]

ApiGame(d, h, v, hs, vs) ==
    [date |-> Date(d), home_team |-> [id |-> h], visitor_team |-> [id |-> v],
     home_team_score |-> hs, visitor_team_score |-> vs]

\* Game records the endpoint may serve: complete, scoreless (0-0), and with
\* either score missing (null).
RecA == ApiGame("2024-01-05", 1, 2, Some(110), Some(102))
RecB == ApiGame("2024-01-06", 2, 12, Some(0), Some(0))
RecC == ApiGame("2024-01-07", 2, 1, None, Some(99))
RecD == ApiGame("2024-01-08", 12, 1, Some(95), None)
ApiGameRecs == {RecA, RecB, RecC, RecD}

\* One page of the games endpoint: resp.json()['data'].
GamePages == SeqsUpTo(ApiGameRecs, MaxPageLen)

\* num_games as main() passes it: int(input(...)) is any integer.
NumGamesInputs == -1..MaxNumGames

----------------------------------------------------------------------------
(* database.py: fetch_games_from_api, one page request per step            *)

\* games[:n] on a Python list.
PySliceWhole(s, n) == s
PySlice(s, n) ==
    IF n >= 0 THEN SubSeq(s, 1, Min(n, Len(s)))
    ELSE SubSeq(s, 1, Max(Len(s) + n, 0))

\* The while condition, line 111.
LoopCond(g, n) == Len(g) < n

\* The row INSERTed for one API record (lines 137-138); id is AUTOINCREMENT.
GameRowOf(g, id) ==
    [id |-> id, date |-> DatePrefix(g.date),
     home_team_id |-> g.home_team.id, away_team_id |-> g.visitor_team.id,
     home_score |-> g.home_team_score, away_score |-> g.visitor_team_score]

\* The guard of the insert, line 136.
HasScoresTruthy(g) ==
    /\ g.home_team_score # None /\ g.home_team_score # Some(0)
    /\ g.visitor_team_score # None /\ g.visitor_team_score # Some(0)
HasScores(g) == g.home_team_score # None /\ g.visitor_team_score # None

\* The for loop of lines 135-138 over the list gs, on an emptied Games table
\* whose AUTOINCREMENT counter stands at seq: the rows it inserts, in order.
RECURSIVE InsertApiGames(_, _)
InsertApiGames(gs, seq) ==
    IF gs = <<>> THEN <<>>
    ELSE IF HasScores(Head(gs))
         THEN <<GameRowOf(Head(gs), seq + 1)>> \o InsertApiGames(Tail(gs), seq + 1)
         ELSE InsertApiGames(Tail(gs), seq)

FetchInit ==
    /\ fpc = "loop"
    /\ num_games \in NumGamesInputs
    /\ games = <<>>
    /\ page = 1
    /\ requests = <<>>
    /\ fetched = <<>>
    /\ stored = <<>>

\* One iteration of the while loop, lines 111-119, with the page `data` the
\* endpoint answers.
FetchPage(data) ==
    /\ fpc = "loop"
    /\ FetchFrame
    /\ LoopCond(games, num_games)
    /\ requests' = Append(requests, [page |-> page, before |-> Len(games), got |-> Len(data)])
    /\ IF data = <<>>
       THEN /\ fpc' = "return"
            /\ UNCHANGED <<games, page>>
       ELSE /\ games' = games \o data
            /\ page' = page + 1
            /\ fpc' = "loop"
    /\ UNCHANGED <<num_games, fetched, stored>>

\* resp.raise_for_status() raises on a non-2xx answer, line 113.
FetchHttpError ==
    /\ fpc = "loop"
    /\ FetchFrame
    /\ LoopCond(games, num_games)
    /\ requests' = Append(requests, [page |-> page, before |-> Len(games), got |-> 0])
    /\ fpc' = "failed"
    /\ UNCHANGED <<num_games, games, page, fetched, stored>>

\* The loop condition is false, line 111.
FetchLoopExit ==
    /\ fpc = "loop"
    /\ FetchFrame
    /\ ~LoopCond(games, num_games)
    /\ fpc' = "return"
    /\ UNCHANGED <<num_games, games, page, requests, fetched, stored>>

\* return games[:num_games], line 120.
FetchReturn ==
    /\ fpc = "return"
    /\ FetchFrame
    /\ fetched' = PySlice(games, num_games)
    /\ fpc' = "store"
    /\ UNCHANGED <<num_games, games, page, requests, stored>>

\* populate_tables_from_api, lines 134-139: DELETE FROM Games, then the
\* inserts and the commit.
StoreFetched ==
    /\ fpc = "store"
    /\ FetchFrame
    /\ stored' = InsertApiGames(fetched, 0)
    /\ fpc' = "done"
    /\ UNCHANGED <<num_games, games, page, requests, fetched>>

FetchNext ==
    \/ \E data \in GamePages : FetchPage(data)
    \/ FetchHttpError
    \/ FetchLoopExit
    \/ FetchReturn
    \/ StoreFetched

----------------------------------------------------------------------------
(* database.py: the SQLite store                                           *)

MaxRuns == 2       \* program runs against the same nba.db

Ids(table) == {r.id : r \in table}

\* SELECT * FROM a table: its rows in rowid order.
RECURSIVE ReadSql(_)
ReadSql(table) ==
    IF table = {} THEN <<>>
    ELSE LET r == CHOOSE x \in table : \A y \in table : x.id <= y.id
         IN  <<r>> \o ReadSql(table \ {r})

\* DELETE FROM table.  AUTOINCREMENT counters are not reset by it.
DeleteFromKeepsRows(table) == table
DeleteFrom(table) == {}

\* INSERT without an id into an AUTOINCREMENT table whose counter is seq:
\* row r gets id seq + 1.  executemany does it for each element in turn.
WithId(r, id) == [x \in DOMAIN r \cup {"id"} |-> IF x = "id" THEN id ELSE r[x]]

RECURSIVE InsertMany(_, _, _)
InsertMany(table, seq, rows) ==
    IF rows = <<>> THEN [table |-> table, seq |-> seq]
    ELSE InsertMany(table \cup {WithId(Head(rows), seq + 1)}, seq + 1, Tail(rows))

\* The literal seed data of populate_tables, lines 61-89.
FictionalTeams ==
    << [name |-> "Dragons", city |-> "Atlantis"],
       [name |-> "Wolves",  city |-> "Moon City"],
       [name |-> "Sharks",  city |-> "Coral Bay"],
       [name |-> "Falcons", city |-> "Skyville"] >>

Player(n, t, p) == [name |-> n, team_id |-> t, position |-> p]
FictionalPlayers ==
    << Player("Alex Storm", 1, "Guard"),   Player("Blake Moon", 2, "Forward"),
       Player("Casey Wave", 3, "Center"),  Player("Drew Sky", 4, "Guard"),
       Player("Eli Blaze", 1, "Forward"),  Player("Finn Tide", 3, "Guard"),
       Player("Gale Hawk", 4, "Center"),   Player("Harper Wolf", 2, "Center") >>

SeedGame(d, h, a, hs, as) ==
    [date |-> [ymd |-> d, rest |-> ""], home_team_id |-> h, away_team_id |-> a,
     home_score |-> Some(hs), away_score |-> Some(as)]
FictionalGames ==
    << SeedGame("2023-01-01", 1, 2, 102, 98),  SeedGame("2023-01-02", 3, 4, 110, 105),
       SeedGame("2023-01-03", 1, 3, 99, 101),  SeedGame("2023-01-04", 2, 4, 95, 100),
       SeedGame("2023-01-05", 4, 1, 108, 112), SeedGame("2023-01-06", 2, 3, 104, 107) >>

\* Team records of the teams endpoint (fields beyond id, name, city exist
\* and are not read).
ApiTeam(id, n, c, abbr) == [id |-> id, name |-> n, city |-> c, abbreviation |-> abbr]
ApiTeamLists ==
    { <<>>,
      <<ApiTeam(1, "Hawks", "Atlanta", "ATL"), ApiTeam(2, "Celtics", "Boston", "BOS"),
        ApiTeam(12, "Pacers", "Indiana", "IND"), ApiTeam(30, "Wizards", "Washington", "WAS")>>,
      <<ApiTeam(12, "Pacers", "Indiana", "IND"), ApiTeam(1, "Hawks", "Atlanta", "ATL")>>,
      <<ApiTeam(2, "Celtics", "Boston", "BOS"), ApiTeam(2, "Nets", "Brooklyn", "BKN")>> }

\* INSERT OR IGNORE INTO Teams (id, name, city), line 131: a row whose id is
\* taken is ignored; an explicit id raises the AUTOINCREMENT counter to it.
InsertOrIgnoreTeam(st, t) ==
    IF t.id \in Ids(st.table) THEN st
    ELSE [table |-> st.table \cup {[id |-> t.id, name |-> t.name, city |-> t.city]},
          seq   |-> Max(st.seq, t.id)]

RECURSIVE InsertTeams(_, _)
InsertTeams(st, ts) ==
    IF ts = <<>> THEN st ELSE InsertTeams(InsertOrIgnoreTeam(st, Head(ts)), Tail(ts))

\* fetch_games_from_api as a whole, lines 107-120, against an endpoint whose
\* page k is feed[k] (empty beyond the end of feed).
RECURSIVE FetchLoop(_, _, _, _)
FetchLoop(feed, n, acc, p) ==
    IF LoopCond(acc, n)
    THEN LET data == IF p <= Len(feed) THEN feed[p] ELSE <<>>
         IN  IF data = <<>> THEN acc ELSE FetchLoop(feed, n, acc \o data, p + 1)
    ELSE acc

fetch_games_from_api(feed, n) == PySlice(FetchLoop(feed, n, <<>>, 1), n)

\* Endpoints the store is imported from: pages of the games collection.
GameFeeds ==
    { <<>>,
      << <<RecA, RecC>>, <<RecB>> >>,
      << <<RecC>>, <<RecD>> >>,
      << <<RecD, RecB>>, <<RecA, RecA>> >> }

NoRun == [mode |-> "none", teams |-> <<>>, games |-> <<>>,
          prevPlayers |-> {}, prevGameSeq |-> 0]

StoreInit ==
    /\ Teams = {} /\ Players = {} /\ Games = {}
    /\ sqlite_sequence = [Teams |-> 0, Players |-> 0, Games |-> 0]
    /\ runs = 0
    /\ last = NoRun
    /\ valid_team_ids = None
    /\ valid_teams_df = None

\* populate_tables(conn), lines 55-90 (create_tables has made the tables).
populate_tables ==
    LET t == InsertMany(Teams, sqlite_sequence.Teams, FictionalTeams)
        p == InsertMany(Players, sqlite_sequence.Players, FictionalPlayers)
        g == InsertMany(Games, sqlite_sequence.Games, FictionalGames)
    IN  /\ Teams' = t.table
        /\ Players' = p.table
        /\ Games' = g.table
        /\ sqlite_sequence' = [Teams |-> t.seq, Players |-> p.seq, Games |-> g.seq]
        /\ last' = [NoRun EXCEPT !.mode = "fictional", !.prevPlayers = Players,
                                 !.prevGameSeq = sqlite_sequence.Games]

\* populate_tables_from_api(conn, num_games), lines 122-139, when every
\* request succeeds: teams is the answer of the teams endpoint, feed the
\* pages of the games endpoint.
populate_tables_from_api(teams, feed, n) ==
    LET t  == InsertTeams([table |-> DeleteFrom(Teams), seq |-> sqlite_sequence.Teams], teams)
        gs == fetch_games_from_api(feed, n)
        g0 == DeleteFrom(Games)
        ins == InsertApiGames(gs, sqlite_sequence.Games)
    IN  /\ Teams' = t.table
        /\ Games' = g0 \cup Range(ins)
        /\ sqlite_sequence' = [sqlite_sequence EXCEPT !.Teams = t.seq,
                                                      !.Games = @ + Len(ins)]
        /\ UNCHANGED Players
        /\ last' = [mode |-> "api", teams |-> teams, games |-> gs,
                    prevPlayers |-> Players, prevGameSeq |-> sqlite_sequence.Games]

\* populate_tables_from_api when a request raises (raise_for_status, lines
\* 99 and 113): the commit of line 139 is never reached and the connection's
\* open transaction is rolled back.
populate_tables_from_api_fails ==
    /\ UNCHANGED <<Teams, Players, Games, sqlite_sequence>>
    /\ last' = [NoRun EXCEPT !.mode = "api_failed", !.prevPlayers = Players,
                             !.prevGameSeq = sqlite_sequence.Games]

----------------------------------------------------------------------------
(* data_loader.py and main.py, lines 11-37: one run of a program           *)

\* DataFrame.drop_duplicates(): the first of equal rows is kept.
RECURSIVE DropDuplicates(_)
DropDuplicates(df) ==
    IF df = <<>> THEN <<>>
    ELSE LET init == DropDuplicates(SubSeq(df, 1, Len(df) - 1))
             r    == df[Len(df)]
         IN  IF r \in Range(init) THEN init ELSE Append(init, r)

\* fillna(d) on one nullable cell.
FillNa(cell, d) == IF cell = None THEN d ELSE cell[1]

\* preprocess_data on the games frame, lines 31-34: drop_duplicates,
\* fillna(0) and the int coercion of the two score columns.
PreprocessGames(df) ==
    LET u == DropDuplicates(df)
    IN  [i \in 1..Len(u) |->
            [u[i] EXCEPT !.home_score = FillNa(@, 0), !.away_score = FillNa(@, 0)]]

\* preprocess_data on the teams frame, line 29.  name and city are NOT NULL
\* in the schema, so fillna('Unknown') finds nothing to fill.
PreprocessTeams(df) == DropDuplicates(df)

\* main.py line 32.
ValidTeamIdsHomeOnly(df) == {df[i].home_team_id : i \in 1..Len(df)}
ValidTeamIds(df) ==
    {df[i].home_team_id : i \in 1..Len(df)} \cup {df[i].away_team_id : i \in 1..Len(df)}

\* main.py line 33: teams_df[teams_df['id'].isin(valid_team_ids)].
ValidTeams(tdf, valid) ==
    LET keep(r) == r.id \in valid IN SelectSeq(tdf, keep)

\* python database.py: setup_database() with its defaults (fictional mode).
RunDatabaseScript ==
    /\ runs < MaxRuns
    /\ StoreFrame
    /\ runs' = runs + 1
    /\ populate_tables
    /\ valid_team_ids' = None
    /\ valid_teams_df' = None

\* What main() computes from the store it has just set up, lines 28-33.
MainLoad ==
    LET tdf == PreprocessTeams(ReadSql(Teams'))
        gdf == PreprocessGames(ReadSql(Games'))
    IN  /\ valid_team_ids' = Some(ValidTeamIds(gdf))
        /\ valid_teams_df' = Some(ValidTeams(tdf, ValidTeamIds(gdf)))

\* python main.py, fictional choice.
RunMainFictional ==
    /\ runs < MaxRuns
    /\ StoreFrame
    /\ runs' = runs + 1
    /\ populate_tables
    /\ MainLoad

\* python main.py, choice 'real', every request answered.
RunMainReal(teams, feed, n) ==
    /\ runs < MaxRuns
    /\ StoreFrame
    /\ runs' = runs + 1
    /\ populate_tables_from_api(teams, feed, n)
    /\ MainLoad

\* python main.py, choice 'real', a request fails: setup_database raises and
\* main() ends there.
RunMainRealFails ==
    /\ runs < MaxRuns
    /\ StoreFrame
    /\ runs' = runs + 1
    /\ populate_tables_from_api_fails
    /\ valid_team_ids' = None
    /\ valid_teams_df' = None

StoreNext ==
    \/ RunDatabaseScript
    \/ RunMainFictional
    \/ \E teams \in ApiTeamLists, feed \in GameFeeds, n \in NumGamesInputs :
          RunMainReal(teams, feed, n)
    \/ RunMainRealFails

----------------------------------------------------------------------------
(* main.py, lines 32-67: the interactive loop                              *)

\* Lines typed at the prompts, as sequences of characters.
InputLines ==
    { <<"q">>, <<"Q">>, <<" ", "q", " ">>, <<"q", "q">>,
      <<>>, <<"x">>, <<"1", "x">>,
      <<"1">>, <<"2">>, <<" ", "2">>, <<"1", "2">>, <<"-", "1">> }

\* str.strip(): leading and trailing blanks removed.
RECURSIVE LStrip(_)
LStrip(s) == IF s # <<>> /\ s[1] = " " THEN LStrip(Tail(s)) ELSE s
RECURSIVE RStrip(_)
RStrip(s) ==
    IF s # <<>> /\ s[Len(s)] = " " THEN RStrip(SubSeq(s, 1, Len(s) - 1)) ELSE s
Strip(s) == RStrip(LStrip(s))

\* str.lower().
LowerChar(c) == IF c = "Q" THEN "q" ELSE IF c = "X" THEN "x" ELSE c
Lower(s) == [i \in 1..Len(s) |-> LowerChar(s[i])]

DigitChars == {"0", "1", "2", "3", "4", "5", "6", "7", "8", "9"}
DigitVal(c) ==
    CASE c = "0" -> 0 [] c = "1" -> 1 [] c = "2" -> 2 [] c = "3" -> 3 [] c = "4" -> 4
      [] c = "5" -> 5 [] c = "6" -> 6 [] c = "7" -> 7 [] c = "8" -> 8 [] c = "9" -> 9

RECURSIVE DigitsVal(_)
DigitsVal(s) ==
    IF s = <<>> THEN 0 ELSE 10 * DigitsVal(SubSeq(s, 1, Len(s) - 1)) + DigitVal(s[Len(s)])

\* int(s): None when it raises ValueError.  Blanks around the number and one
\* leading sign are accepted.
ParseInt(s) ==
    LET t    == Strip(s)
        neg  == t # <<>> /\ t[1] = "-"
        body == IF t # <<>> /\ t[1] \in {"-", "+"} THEN Tail(t) ELSE t
    IN  IF body # <<>> /\ \A i \in 1..Len(body) : body[i] \in DigitChars
        THEN Some(IF neg THEN 0 - DigitsVal(body) ELSE DigitsVal(body))
        ELSE None

\* The test of lines 48 and 51.
IsQuitExact(s) == s = <<"q">>
IsQuit(s) == Lower(s) = <<"q">>

\* np.mean(home_score + away_score), line 43, as an exact fraction.
RECURSIVE SumTotals(_)
SumTotals(df) ==
    IF df = <<>> THEN 0
    ELSE df[1].home_score + df[1].away_score + SumTotals(Tail(df))
AvgTotal(df) == [num |-> SumTotals(df), den |-> Len(df)]

\* Frames the loop may start from: the teams table and a non-empty games
\* table (fit raises on an empty one and main() ends before the loop).
TeamRow(id, n, c) == [id |-> id, name |-> n, city |-> c]
DriverTeams ==
    { << TeamRow(1, "Hawks", "Atlanta"), TeamRow(2, "Celtics", "Boston"),
         TeamRow(12, "Pacers", "Indiana") >>,
      << TeamRow(1, "Hawks", "Atlanta"), TeamRow(2, "Celtics", "Boston") >> }
DriverGames == GameTables \ {<<>>}

DriverInit ==
    /\ pc = "start"
    /\ teams_df \in DriverTeams
    /\ games_df \in DriverGames
    /\ home_id = <<>>
    /\ away_id = <<>>
    /\ printed = <<>>

\* Lines 32-43: valid ids, roster, a new predictor and its fit.
DriverStart ==
    /\ pc = "start"
    /\ DriverFrame
    /\ valid_team_ids' = Some(ValidTeamIds(games_df))
    /\ valid_teams_df' = Some(ValidTeams(teams_df, ValidTeamIds(games_df)))
    /\ Fit(games_df)
    /\ pc' = "home_prompt"
    /\ printed' = <<"roster">>
    /\ UNCHANGED <<teams_df, games_df, home_id, away_id>>

\* Lines 45-49: the banner, the home prompt and the quit test.
ReadHome(line) ==
    /\ pc = "home_prompt"
    /\ DriverFrame
    /\ home_id' = Strip(line)
    /\ printed' = <<"banner">>
    /\ pc' = IF IsQuit(home_id') THEN "exited" ELSE "away_prompt"
    /\ UNCHANGED <<teams_df, games_df, away_id, valid_team_ids, valid_teams_df>>
    /\ UNCHANGED predVars

\* Lines 50-52: the away prompt and the quit test.
ReadAway(line) ==
    /\ pc = "away_prompt"
    /\ DriverFrame
    /\ away_id' = Strip(line)
    /\ pc' = IF IsQuit(away_id') THEN "exited" ELSE "evaluate"
    /\ UNCHANGED <<teams_df, games_df, home_id, printed, valid_team_ids, valid_teams_df>>
    /\ UNCHANGED predVars

\* valid_teams_df.loc[valid_teams_df['id'] == id, 'name'].values[0] raises
\* IndexError when no roster row has that id.
HasRosterRow(roster, id) == \E i \in 1..Len(roster) : roster[i].id = id

\* What the try block prints once predict_scores has answered o, lines 62-67.
PrintedAfterPredict(o, roster, h, a) ==
    IF o.kind = "raise" THEN <<"error">>
    ELSE IF ~HasRosterRow(roster, h) THEN <<"header", "error">>
    ELSE IF ~HasRosterRow(roster, a) THEN <<"header", "home_line", "error">>
    ELSE <<"header", "home_line", "away_line">>

\* Lines 53-67: the try block, then back to the top of the loop.
Evaluate ==
    /\ pc = "evaluate"
    /\ DriverFrame
    /\ pc' = "home_prompt"
    /\ LET h == ParseInt(home_id)
           a == ParseInt(away_id)
           valid == valid_team_ids[1]
       IN  IF h = None \/ a = None
           THEN /\ printed' = printed \o <<"error">>
                /\ UNCHANGED predVars
           ELSE IF h[1] = a[1]
           THEN /\ printed' = printed \o <<"teams_must_differ">>
                /\ UNCHANGED predVars
           ELSE IF h[1] \notin valid \/ a[1] \notin valid
           THEN /\ printed' = printed \o <<"invalid_ids">>
                /\ UNCHANGED predVars
           ELSE /\ \E o \in PredictScoresOutcomes(model, feature_columns,
                                                    h[1], a[1], AvgTotal(games_df)) :
                       printed' = printed \o
                           PrintedAfterPredict(o, valid_teams_df[1], h[1], a[1])
                /\ UNCHANGED predVars
    /\ UNCHANGED <<teams_df, games_df, home_id, away_id, valid_team_ids, valid_teams_df>>

DriverNext ==
    \/ DriverStart
    \/ \E line \in InputLines : ReadHome(line)
    \/ \E line \in InputLines : ReadAway(line)
    \/ Evaluate

----------------------------------------------------------------------------
(* The specifications                                                      *)

PredIdle ==
    /\ model = UnfitModel /\ feature_columns = None
    /\ call = NoCall /\ outcome = Raised("")
FetchIdle ==
    /\ fpc = "idle" /\ num_games = 0 /\ games = <<>> /\ page = 1
    /\ requests = <<>> /\ fetched = <<>> /\ stored = <<>>
DriverIdle ==
    /\ pc = "idle" /\ teams_df = <<>> /\ games_df = <<>>
    /\ home_id = <<>> /\ away_id = <<>> /\ printed = <<>>

\* The calls a client of NBAPredictor can make.
CallFit(df)                == Fit(df) /\ PredFrame
CallPredict(h, a)          == Predict(h, a) /\ PredFrame
CallPredictScores(h, a, T) == PredictScores(h, a, T) /\ PredFrame

\* Identifiers passed to predict: the known ones and one never seen.
QueryIds == TeamIds \cup {7}

PredNext ==
    \/ \E df \in GameTables : CallFit(df)
    \/ \E h \in QueryIds, a \in QueryIds : CallPredict(h, a)
    \/ \E h \in QueryIds, a \in QueryIds, T \in Totals : CallPredictScores(h, a, T)

InitPredictor == PredInit /\ FetchIdle /\ StoreInit /\ DriverIdle
InitFetch     == PredIdle /\ FetchInit /\ StoreInit /\ DriverIdle
InitStore     == PredIdle /\ FetchIdle /\ StoreInit /\ DriverIdle
InitDriver    == PredInit /\ FetchIdle /\ StoreInit /\ DriverInit

\* An NBAPredictor under any sequence of calls.
SpecPredictor == InitPredictor /\ [][PredNext]_vars

\* One games import of populate_tables_from_api, page by page.  The loop is
\* sequential code: a step that can be taken is taken.
SpecFetch == InitFetch /\ [][FetchNext]_vars /\ WF_vars(FetchNext)

\* Program runs against one nba.db file.
SpecStore == InitStore /\ [][StoreNext]_vars

\* main() from the loaded frames on.
SpecDriver == InitDriver /\ [][DriverNext]_vars

Spec == SpecStore

----------------------------------------------------------------------------
(* Properties                                                              *)

FitColumns == Range(feature_columns[1])
HomeCol(id) == Col("home_team_id", IntToStr(id))
AwayCol(id) == Col("away_team_id", IntToStr(id))

\* C1: after fit, predict with an identifier never seen at fit in its role
\* does not raise; the row it builds has exactly the fitted columns, in the
\* fitted order, and every indicator column of the unseen side is 0.
C1_UnseenIdDoesNotRaise ==
    (/\ call.op = "predict"
     /\ feature_columns # None
     /\ (HomeCol(call.home) \notin FitColumns \/ AwayCol(call.away) \notin FitColumns))
    => /\ outcome.kind = "return"
       /\ RowColumns(outcome.X_pred[1]) = feature_columns[1]
       /\ \A i \in 1..Len(outcome.X_pred[1]) :
            LET c == outcome.X_pred[1][i]
            IN  /\ (HomeCol(call.home) \notin FitColumns /\ c[1].prefix = "home_team_id")
                       => c[2] = 0
                /\ (AwayCol(call.away) \notin FitColumns /\ c[1].prefix = "away_team_id")
                       => c[2] = 0

\* C3: predict or predict_scores on a predictor that was never fitted fails
\* with a NotFitted error, and only a fitted predictor returns a value.
C3_UnfitPredictFailsNotFitted ==
    call.op \in {"predict", "predict_scores"}
    => /\ feature_columns = None
            => (outcome.kind = "raise" /\ outcome.exc = "NotFitted")
       /\ outcome.kind = "return" => (feature_columns # None /\ model.fitted)

\* C4: predict_scores(h, a, T) on a fitted predictor returns a pair
\* (home, away) with home + away = T and home - away a value of predict,
\* for any identifiers.
C4_ScoresSumToTotal ==
    (call.op = "predict_scores" /\ feature_columns # None)
    => /\ outcome.kind = "return"
       /\ LET home == outcome.value[1][1]
              away == outcome.value[1][2]
          IN  /\ home.den = away.den
              /\ (home.num + away.num) * call.total.den = call.total.num * home.den
              /\ \E d \in Diffs : home.num - away.num = d * home.den

\* Pages are requested as 1, 2, 3, ...; no request is made with num_games
\* records at hand, and none follows an empty page.
RequestsSequential ==
    \A i \in 1..Len(requests) :
        /\ requests[i].page = i
        /\ requests[i].before < num_games
        /\ i < Len(requests) => requests[i].got > 0

\* C2 as stated: the requests are sequential and stop on an empty page or
\* at the count, and the list returned and the rows stored never have more
\* than num_games elements.
C2_NeverMoreThanRequested ==
    /\ RequestsSequential
    /\ fpc \in {"store", "done"} => Len(fetched) <= num_games
    /\ fpc = "done" => Len(stored) <= num_games

\* The same with max(num_games, 0) as the limit: a negative count yields
\* the empty list.
FetchSafe ==
    /\ RequestsSequential
    /\ fpc \in {"store", "done"} =>
          (Len(fetched) <= num_games \/ (num_games < 0 /\ fetched = <<>>))
    /\ fpc = "done" =>
          (Len(stored) <= num_games \/ (num_games < 0 /\ stored = <<>>))

\* C2 as amended: the fetch always ends; its requests are sequential and
\* stop on an empty page or at the count; the list returned and the rows
\* stored never have more than max(num_games, 0) elements.
C2_FetchEndsWithinCount == []FetchSafe /\ <>(fpc \in {"done", "failed"})

C2_Witness ==
    /\ fpc = "done"
    /\ Len(requests) >= 2
    /\ num_games > 0
    /\ Len(games) > num_games
    /\ Len(fetched) = num_games
    /\ Len(stored) < Len(fetched)

\* A fetched record with both scores present.
BothScores(g) == g.home_team_score # <<>> /\ g.visitor_team_score # <<>>

\* The Games row with this id holds the values of fetched record g.
RowHolds(r, g) ==
    /\ r.date.ymd = g.date.ymd /\ r.date.rest = ""
    /\ r.home_team_id = g.home_team.id /\ r.away_team_id = g.visitor_team.id
    /\ r.home_score = g.home_team_score /\ r.away_score = g.visitor_team_score

\* C5: after a committed API import Teams holds exactly the fetched teams,
\* Games holds only rows made from the fetched games by this import (none
\* from before the call), and Players is as it was.
C5_ApiImportReplaces ==
    last.mode = "api"
    => /\ Ids(Teams) = {last.teams[i].id : i \in 1..Len(last.teams)}
       /\ Cardinality(Teams) = Cardinality(Ids(Teams))
       /\ \A r \in Teams : \E i \in 1..Len(last.teams) :
            /\ last.teams[i].id = r.id
            /\ last.teams[i].name = r.name /\ last.teams[i].city = r.city
            /\ \A j \in 1..(i - 1) : last.teams[j].id # r.id
       /\ \A r \in Games :
            /\ r.id > last.prevGameSeq
            /\ \E i \in 1..Len(last.games) : RowHolds(r, last.games[i])
       /\ Players = last.prevPlayers

C5_Witness ==
    /\ last.mode = "api"
    /\ last.prevGameSeq > 0
    /\ last.prevPlayers # {}
    /\ Teams # {} /\ Games # {}

\* C6: after an API import every Games row has both scores, and each
\* fetched record that has both scores is stored as exactly one row.
C6_IncompleteSkipped ==
    last.mode = "api"
    => LET full == {i \in 1..Len(last.games) : BothScores(last.games[i])}
       IN  /\ \A r \in Games : r.home_score # <<>> /\ r.away_score # <<>>
           /\ Cardinality(Games) = Cardinality(full)
           /\ \A i \in full : \E r \in Games :
                /\ r.id = last.prevGameSeq + Cardinality({j \in full : j <= i})
                /\ RowHolds(r, last.games[i])

C6_Witness ==
    /\ last.mode = "api"
    /\ \E i \in 1..Len(last.games) : ~BothScores(last.games[i])
    /\ \E r \in Games : r.home_score = <<0>>
    /\ Cardinality(Games) >= 2

\* Team ids some Games row references.
Referenced == {g.home_team_id : g \in Games} \cup {g.away_team_id : g \in Games}

\* C7: valid_team_ids is exactly the set of ids some Games row references
\* as home or away team, and the roster is exactly the Teams rows with such
\* an id (a team without games is left out).
C7_ValidIdsAreReferenced ==
    valid_team_ids # None
    => /\ valid_team_ids[1] = Referenced
       /\ Range(valid_teams_df[1]) = {t \in Teams : t.id \in Referenced}
       /\ Len(valid_teams_df[1]) = Cardinality(Range(valid_teams_df[1]))

C7_Witness ==
    /\ valid_team_ids # None
    /\ valid_team_ids[1] # {}
    /\ \E t \in Teams : t.id \notin valid_team_ids[1]
    /\ \E g \in Games : \A h \in Games : h.home_team_id # g.away_team_id

\* C9: every Games row's home_team_id and away_team_id is the id of a
\* Teams row, after any sequence of importer runs.
C9_GameTeamsExist ==
    \A g \in Games : g.home_team_id \in Ids(Teams) /\ g.away_team_id \in Ids(Teams)

\* The quit sentinel, in either case.
QuitLine(s) == s \in {<<"q">>, <<"Q">>}
ErrorOrPrediction == {"error", "teams_must_differ", "invalid_ids", "away_line"}

\* The loop is left only on a quit line, a quit line leaves it, and a
\* finished iteration has printed an error or a prediction.
LoopSafe ==
    /\ pc \in {"start", "home_prompt", "away_prompt", "evaluate", "exited"}
    /\ pc = "exited" => (QuitLine(home_id) \/ QuitLine(away_id))
    /\ pc = "away_prompt" => ~QuitLine(home_id)
    /\ pc = "evaluate" => (~QuitLine(home_id) /\ ~QuitLine(away_id))
    /\ (pc = "home_prompt" /\ printed # <<"roster">>)
          => /\ Len(printed) >= 2
             /\ printed[Len(printed)] \in ErrorOrPrediction

\* Every other line moves on to the next prompt, and the try block always
\* prints and returns to the home prompt.
LoopStep ==
    /\ pc = "evaluate" => (pc' = "home_prompt" /\ Len(printed') > Len(printed))
    /\ (pc = "home_prompt" /\ ~QuitLine(home_id')) => pc' = "away_prompt"
    /\ (pc = "away_prompt" /\ ~QuitLine(away_id')) => pc' = "evaluate"

\* C8: the loop is left only when 'q' (in either case) is entered at the
\* home or the away prompt; every other pair of lines prints an error or a
\* prediction and returns to the home prompt.
C8_LoopLeavesOnlyOnQuit == []LoopSafe /\ [][LoopStep]_vars

C8_Witness ==
    /\ pc = "home_prompt"
    /\ ParseInt(home_id) = None
    /\ ParseInt(away_id) # None
    /\ printed = <<"banner", "error">>

\* C10: a pair of distinct ids that passes the driver's membership check has
\* both its indicator columns among the fitted columns, and the iteration
\* prints a prediction.
C10_AcceptedPairPredicts ==
    (/\ pc = "home_prompt"
     /\ Len(printed) >= 2
     /\ ParseInt(home_id) # None /\ ParseInt(away_id) # None
     /\ ParseInt(home_id) # ParseInt(away_id)
     /\ ParseInt(home_id)[1] \in valid_team_ids[1]
     /\ ParseInt(away_id)[1] \in valid_team_ids[1]
     /\ HasRosterRow(valid_teams_df[1], ParseInt(home_id)[1])
     /\ HasRosterRow(valid_teams_df[1], ParseInt(away_id)[1]))
    => /\ HomeCol(ParseInt(home_id)[1]) \in FitColumns
       /\ AwayCol(ParseInt(away_id)[1]) \in FitColumns
       /\ printed = <<"banner", "header", "home_line", "away_line">>

====
